---- MODULE Spec2Model ----
(***************************************************************************)
(* A model of tabwriter's TabWriter (src/src/lib.rs): the cell/line       *)
(* buffer filled by write, the column-block width computation cell_widths *)
(* and the emission done by flush into the wrapped writer w.              *)
(*                                                                         *)
(* Indices are 1-based here and 0-based in the source: cell `col` of the  *)
(* source is line[col + 1] here, and a source range [a, b) is a+1 .. b.   *)
(***************************************************************************)
EXTENDS Integers, Sequences, FiniteSets, TLC

\* ---------------------------------------------------------------- bounds
\* Total number of bytes the writes of one behaviour consume.
MaxInput == 4
\* Longest slice handed to one write call.
MaxWrite == 2
\* Number of write/flush calls that may end in a sink error.
MaxFails == 1
\* A failing sink accepts 0..MaxOk write calls of the operation before it fails.
MaxOk == 1
\* Total number of cells of the lines a drawn TabWriter state holds (SpecCW).
MaxCells == 6
\* Number of lines, and of cells per line, of a drawn list (SpecLists).
MaxListLines == 5
MaxLineCells == 3

\* ------------------------------------------------------ program constants
TAB == 9
NL == 10
SPACE == 32
DefaultMinwidth == 2
DefaultPadding == 2

\* The bytes the writes draw from: the two delimiters, a printable ASCII
\* letter (one display column), an ASCII control character (valid UTF-8, no
\* display column) and a byte that never occurs in valid UTF-8.
Bytes == {TAB, NL, 97, 1, 255}

\* Values the builder methods minwidth() and padding() are called with.
MinwidthValues == {0, DefaultMinwidth}
PaddingValues == {0, DefaultPadding}

VARIABLES
    w,          \* the wrapped writer: the bytes it has received
    buf,        \* TabWriter.buf: the backing bytes of the round
    lines,      \* TabWriter.lines: Vec<Vec<Cell>>
    curcell,    \* TabWriter.curcell: the in-progress cell
    minwidth,   \* TabWriter.minwidth
    padding,    \* TabWriter.padding
    wpad,       \* history: positions of w written by write_str(padding)
    consumed,   \* history: every byte a write call has processed, in order
    roundStart, \* history: Len(consumed) at the last reset
    call,       \* history: the last call (op), its result (res), the result of
                \* the call before it (after), the number of bytes it
                \* processed (nproc) and the bytes it left unread
    log,        \* history: the flushes run by the last call, in order
    fails,      \* history: number of calls that returned Err
    dirty       \* history: a flush has failed since the last reset

vars == <<w, buf, lines, curcell, minwidth, padding,
          wpad, consumed, roundStart, call, log, fails, dirty>>

Max(a, b) == IF a >= b THEN a ELSE b

\* F applied to the value of v: a `let` whose right-hand side is evaluated
\* once, however often F uses it.
With(v, F(_)) == CHOOSE r \in {F(x) : x \in {v}} : TRUE

\* ------------------------------------------------------------------ Cell
Cell_new(start) == [start |-> start, width |-> 0, size |-> 0]

\* char::width(false).unwrap_or(0) for the one-byte characters: NUL is
\* Some(0), the other control characters are None, the rest of ASCII is 1.
char_width(c) == IF c < 32 \/ c = 127 THEN 0 ELSE 1

RECURSIVE sum_widths(_)
sum_widths(bytes) ==
    IF bytes = <<>> THEN 0
    ELSE char_width(Head(bytes)) + sum_widths(Tail(bytes))

\* str::from_utf8 on a string over Bytes: every byte below 0x80 is a
\* character of its own and 0xFF is never part of a valid sequence.
from_utf8_ok(bytes) == \A k \in 1..Len(bytes) : bytes[k] < 128

display_columns(bytes) ==
    IF from_utf8_ok(bytes) THEN sum_widths(bytes) ELSE Len(bytes)

update_width(cell, b) ==
    [cell EXCEPT !.width =
        display_columns(SubSeq(b, cell.start + 1, cell.start + cell.size))]

\* ------------------------------------------------------------- TabWriter
\* The struct as one record, so that the methods are operators on it.
self ==
    [w |-> w, wpad |-> wpad, buf |-> buf, lines |-> lines,
     curcell |-> curcell, minwidth |-> minwidth, padding |-> padding]

new ==
    [w |-> <<>>, wpad |-> {}, buf |-> <<>>, lines |-> << <<>> >>,
     curcell |-> Cell_new(0), minwidth |-> DefaultMinwidth,
     padding |-> DefaultPadding]

\* A reset that forgets to replace the backing buffer.
reset_keeps_buf(s) ==
    [s EXCEPT !.lines = << <<>> >>, !.curcell = Cell_new(0)]

\* A reset that starts a fresh cell but keeps the lines and their bytes.
reset_keeps_round(s) ==
    [s EXCEPT !.curcell = Cell_new(Len(s.buf))]

reset(s) ==
    [s EXCEPT !.buf = <<>>, !.lines = << <<>> >>, !.curcell = Cell_new(0)]

\* An add_bytes that sets the cell's size to the length of the last slice.
add_bytes_restarts_size(s, bytes) ==
    [s EXCEPT !.curcell.size = Len(bytes), !.buf = @ \o bytes]

add_bytes(s, bytes) ==
    [s EXCEPT !.curcell.size = @ + Len(bytes), !.buf = @ \o bytes]

curline(s) == s.lines[Len(s.lines)]

\* A termination whose fresh cell starts at offset 0 of the buffer.
term_curcell_starts_at_zero(s) ==
    LET done == update_width(s.curcell, s.buf)
    IN  [s EXCEPT !.curcell = Cell_new(0),
                  !.lines[Len(s.lines)] = Append(@, done)]

\* A termination that overwrites the line's last cell once the line has one.
term_curcell_replaces_last(s) ==
    LET done == update_width(s.curcell, s.buf)
        line == s.lines[Len(s.lines)]
    IN  [s EXCEPT !.curcell = Cell_new(Len(s.buf)),
                  !.lines[Len(s.lines)] =
                        IF line = <<>> THEN <<done>>
                        ELSE [line EXCEPT ![Len(line)] = done]]

term_curcell(s) ==
    LET done == update_width(s.curcell, s.buf)
    IN  [s EXCEPT !.curcell = Cell_new(Len(s.buf)),
                  !.lines[Len(s.lines)] = Append(@, done)]

\* ----------------------------------------------------------- cell_widths
\* A scan that stops only past the last cell, so that a line's last cell
\* joins the column block.
is_last_column_off_by_one(col, line) == col >= Len(line)

\* `col + 1 >= line.len()`: col (0-based) is the last cell of line, or past it.
is_last_column(col, line) == col + 1 >= Len(line)

\* The running width replaced by the cell's width instead of the larger one.
wider_keeps_last(width, cellwidth) == cellwidth

\* width = cmp::max(width, line[col].width)
wider(width, cellwidth) == Max(width, cellwidth)

\* The inner loop over lines.slice_from(i): k is the line looked at,
\* acc = [width, contig_count, reads, visits]. For the history, visits
\* counts the iterations of the loop (the one that breaks included) and
\* reads lists the <<line, col>> whose cell width was read.
RECURSIVE contig_scan(_, _, _, _)
contig_scan(ls, col, k, acc) ==
    IF k > Len(ls) THEN acc
    ELSE IF is_last_column(col, ls[k]) THEN [acc EXCEPT !.visits = @ + 1]
    ELSE With([width |-> wider(acc.width, ls[k][col + 1].width),
               contig_count |-> acc.contig_count + 1,
               reads |-> Append(acc.reads, <<k, col>>),
               visits |-> acc.visits + 1],
              LAMBDA next : contig_scan(ls, col, k + 1, next))

\* The width pushed onto line i alone instead of onto every line of the run.
push_widths_first_line_only(ws, i, contig_count, width) ==
    [j \in 1..Len(ws) |-> IF j = i THEN Append(ws[j], width) ELSE ws[j]]

\* for j in range(i, i+contig_count) { ws[j].push(width) }
push_widths(ws, i, contig_count, width) ==
    [j \in 1..Len(ws) |->
        IF i <= j /\ j < i + contig_count THEN Append(ws[j], width) ELSE ws[j]]

\* For the history: the pushes that turned ws into pushed, as the lines
\* pushed onto, with the column and the number of widths the line held.
pushes_of(ws, pushed, col) ==
    LET js == SelectSeq([j \in 1..Len(ws) |-> j],
                        LAMBDA j : Len(pushed[j]) > Len(ws[j]))
    IN  [x \in 1..Len(js) |->
            [line |-> js[x], col |-> col, held |-> Len(ws[js[x]])]]

\* for col in range(ws[i].len(), iline.len()-1):
\* st = [ws, ok, runs, reads, pushes, visits], ok turns FALSE when
\* assert!(contig_count >= 1) fails. For the history, runs lists the
\* iterations of this loop with the contig_count each one found.
RECURSIVE col_loop(_, _, _, _, _, _)
col_loop(st, ls, mw, i, col, hi) ==
    IF col >= hi \/ ~st.ok THEN st
    ELSE With(contig_scan(ls, col, i,
                          [width |-> mw, contig_count |-> 0,
                           reads |-> st.reads, visits |-> st.visits]),
              LAMBDA sc :
         With([st EXCEPT !.runs = Append(@, [line |-> i, col |-> col,
                                             contig_count |-> sc.contig_count]),
                         !.reads = sc.reads,
                         !.visits = sc.visits],
              LAMBDA seen :
                IF sc.contig_count < 1 THEN [seen EXCEPT !.ok = FALSE]
                ELSE With(push_widths(st.ws, i, sc.contig_count, sc.width),
                          LAMBDA pushed :
                     With([seen EXCEPT !.ws = pushed,
                                       !.pushes = @ \o pushes_of(st.ws, pushed,
                                                                 col)],
                          LAMBDA next :
                            col_loop(next, ls, mw, i, col + 1, hi)))))

\* A column loop that starts at column 0 on every line.
first_col_zero(ws, i) == 0

\* ws[i].len(), the first column of line i that has no width yet.
first_col(ws, i) == Len(ws[i])

\* A column loop that also reaches the line's last cell.
last_col_included(line) == Len(line)

\* iline.len()-1, the end (excluded) of the column loop: the last cell.
last_col(line) == Len(line) - 1

\* for (i, iline) in lines.iter().enumerate()
RECURSIVE line_loop(_, _, _, _)
line_loop(st, ls, mw, i) ==
    IF i > Len(ls) \/ ~st.ok THEN st
    ELSE IF ls[i] = <<>> THEN line_loop(st, ls, mw, i + 1)
    ELSE With(col_loop(st, ls, mw, i, first_col(st.ws, i), last_col(ls[i])),
              LAMBDA next : line_loop(next, ls, mw, i + 1))

cell_widths(ls, mw) ==
    With([ws |-> [j \in 1..Len(ls) |-> <<>>], ok |-> TRUE,
          runs |-> <<>>, reads |-> <<>>, pushes |-> <<>>, visits |-> 0],
         LAMBDA st : line_loop(st, ls, mw, 1))

\* ---------------------------------------------------------------- the sink
\* One call of w.write / w.write_str. plan is what the sink will do in this
\* operation: it accepts every call (failing = FALSE), or it accepts plan.ok
\* more calls and fails from then on. A failing call delivers nothing.
\* st = [w, wpad, plan, res, chunks]; chunks lists the calls that succeeded.
sink_write(st, bytes, kind, j, i) ==
    IF st.plan.failing /\ st.plan.ok = 0 THEN [st EXCEPT !.res = "Err"]
    ELSE [st EXCEPT
            !.w = @ \o bytes,
            !.wpad = IF kind = "pad"
                     THEN @ \cup ((Len(st.w) + 1)..(Len(st.w) + Len(bytes)))
                     ELSE @,
            !.plan.ok = IF st.plan.failing THEN @ - 1 ELSE @,
            !.chunks = Append(@, [kind |-> kind, line |-> j, idx |-> i,
                                  bytes |-> bytes])]

\* ------------------------------------------------------------------- flush
Spaces(n) == [k \in 1..n |-> SPACE]

SeqMax(s) ==
    IF s = <<>> THEN 0
    ELSE CHOOSE m \in {s[k] : k \in 1..Len(s)} : \A k \in 1..Len(s) : s[k] <= m

\* widths.iter().map(|ws| ws.iter().max().unwrap_or(0)).max().unwrap_or(0)
biggest_width(widths) == SeqMax([j \in 1..Len(widths) |-> SeqMax(widths[j])])

\* The gap computed without the cell's own width.
padsize_without_deficit(pad, width, cellwidth) == pad + width

\* let padsize = self.padding + widths[i] - cell.width
padsize(pad, width, cellwidth) == pad + width - cellwidth

\* The loop over the cells of line j, from cell i on (1-based). res becomes
\* "Err" at the first sink call that fails and "Panic" at a failed assertion
\* (or at a slice of the padding string beyond its end).
RECURSIVE emit_cells(_, _, _, _, _, _)
emit_cells(st, s, widths, padlen, j, i) ==
    IF st.res # "Ok" \/ i > Len(s.lines[j]) THEN st
    ELSE LET cell == s.lines[j][i]
             bytes == SubSeq(s.buf, cell.start + 1, cell.start + cell.size)
         IN  With(sink_write(st, bytes, "cell", j, i), LAMBDA s1 :
                IF s1.res # "Ok" THEN s1
                ELSE IF i > Len(widths[j])
                THEN IF i = Len(s.lines[j])
                     THEN emit_cells(s1, s, widths, padlen, j, i + 1)
                     ELSE [s1 EXCEPT !.res = "Panic"]
                ELSE IF widths[j][i] < cell.width
                THEN [s1 EXCEPT !.res = "Panic"]
                ELSE LET n == padsize(s.padding, widths[j][i], cell.width)
                     IN  IF n > padlen THEN [s1 EXCEPT !.res = "Panic"]
                         ELSE With(sink_write(s1, Spaces(n), "pad", j, i),
                                   LAMBDA s2 : emit_cells(s2, s, widths, padlen,
                                                          j, i + 1)))

\* A newline written before the first line too.
newline_before_every_line(j) == TRUE

\* `if !first { try!(self.w.write(b"\n")) } else { first = false }`
newline_before(j) == j > 1

\* The loop over self.lines zipped with widths, from line j on.
RECURSIVE emit_lines(_, _, _, _, _)
emit_lines(st, s, widths, padlen, j) ==
    IF st.res # "Ok" \/ j > Len(s.lines) \/ j > Len(widths) THEN st
    ELSE With(IF newline_before(j)
              THEN sink_write(st, <<NL>>, "nl", j, 0) ELSE st, LAMBDA s1 :
           With(emit_cells(s1, s, widths, padlen, j, 1), LAMBDA s2 :
              emit_lines(s2, s, widths, padlen, j + 1)))

\* The reset run whether or not the emission got to its end.
finish_resets_always(out, res) == reset(out)

\* `self.reset(); Ok(())` is reached only when no try! has returned early.
finish(out, res) == IF res = "Ok" THEN reset(out) ELSE out

\* TabWriter::flush. The result holds the struct afterwards (self), the
\* io result (res), what is left of the sink's plan, and for the history
\* the struct as it was handed to cell_widths (pre), the widths and the
\* sink calls that succeeded (chunks).
\* `if self.curcell.size > 0`
holds_bytes(cell) == cell.size > 0

flush(s, plan) ==
    With(IF holds_bytes(s.curcell) THEN term_curcell(s) ELSE s, LAMBDA pre :
    With(cell_widths(pre.lines, pre.minwidth), LAMBDA cw :
    With(biggest_width(cw.ws) + pre.padding, LAMBDA padlen :
    With([w |-> pre.w, wpad |-> pre.wpad, plan |-> plan,
          res |-> IF cw.ok THEN "Ok" ELSE "Panic", chunks |-> <<>>],
         LAMBDA st0 :
    With(emit_lines(st0, pre, cw.ws, padlen, 1), LAMBDA st :
    With([pre EXCEPT !.w = st.w, !.wpad = st.wpad], LAMBDA out :
        [self |-> finish(out, st.res),
         res |-> st.res, plan |-> st.plan,
         pre |-> pre, widths |-> cw.ws, chunks |-> st.chunks,
         work |-> [runs |-> cw.runs, reads |-> cw.reads,
                   pushes |-> cw.pushes, visits |-> cw.visits]]))))))

\* ------------------------------------------------------------------- write
\* A flush at the end of every line, whatever its number of cells.
breaks_all_columns_any_line(ncells) == ncells >= 1

\* A write that never flushes by itself.
breaks_all_columns_never(ncells) == FALSE

\* `if ncells == 1 { try!(self.flush()) }`
breaks_all_columns(ncells) == ncells = 1

\* One entry of the history of flushes: the round it flushed is
\* consumed[from + 1 .. at], at being Len(consumed) when flush ran.
\* A write that goes on with its bytes after a failed flush.
returns_early_never(res) == FALSE

\* try!(self.flush()): write returns the flush's error (or its panic unwinds).
returns_early(res) == res # "Ok"

LogEntry(f, from, at, early) ==
    [from |-> from, at |-> at, early |-> early, res |-> f.res, pre |-> f.pre,
     post |-> f.self, widths |-> f.widths, chunks |-> f.chunks,
     work |-> f.work]

\* The loop of write over buf.iter().enumerate(): i is the (1-based) index of
\* the byte looked at, lastterm the source's lastterm.
\* st = [self, res, plan, log, nproc]; nproc counts the bytes processed.
\* For the history, base is Len(consumed) and rs is roundStart at the call.
RECURSIVE write_loop(_, _, _, _, _, _)
write_loop(st, bytes, i, lastterm, base, rs) ==
    IF i > Len(bytes)
    THEN [st EXCEPT !.self = add_bytes(@, SubSeq(bytes, lastterm + 1, Len(bytes))),
                    !.nproc = Len(bytes)]
    ELSE IF bytes[i] \notin {TAB, NL}
    THEN write_loop(st, bytes, i + 1, lastterm, base, rs)
    ELSE With(term_curcell(
                add_bytes(st.self, SubSeq(bytes, lastterm + 1, i - 1))),
              LAMBDA s1 :
         IF bytes[i] = TAB
         THEN With([st EXCEPT !.self = s1], LAMBDA next :
                write_loop(next, bytes, i + 1, i, base, rs))
         ELSE With([s1 EXCEPT !.lines = Append(@, <<>>)], LAMBDA s2 :
              IF ~breaks_all_columns(Len(curline(s1)))
              THEN With([st EXCEPT !.self = s2], LAMBDA next :
                     write_loop(next, bytes, i + 1, i, base, rs))
              ELSE With(flush(s2, st.plan), LAMBDA f :
                   With([self |-> f.self, res |-> f.res, plan |-> f.plan,
                         log |-> Append(st.log,
                                   LogEntry(f,
                                     IF st.log = <<>> THEN rs
                                     ELSE st.log[Len(st.log)].at,
                                     base + i, TRUE)),
                         nproc |-> i],
                        LAMBDA next :
                          IF returns_early(f.res) THEN next
                          ELSE write_loop(next, bytes, i + 1, i, base, rs)))))

write(s, bytes, plan, base, rs) ==
    With([self |-> s, res |-> "Ok", plan |-> plan, log |-> <<>>, nproc |-> 0],
         LAMBDA st : write_loop(st, bytes, 1, 0, base, rs))

\* --------------------------------------------------------------- the calls
Plans ==
    {[failing |-> FALSE, ok |-> 0]}
        \cup {[failing |-> TRUE, ok |-> k] : k \in 0..MaxOk}

\* The plan recorded for a call that cannot reach the sink.
NoSinkCall == [failing |-> FALSE, ok |-> 0]

RECURSIVE SeqsUpTo(_, _)
SeqsUpTo(S, n) ==
    IF n = 0 THEN {<<>>}
    ELSE LET shorter == SeqsUpTo(S, n - 1)
         IN  shorter \cup {Append(s, x) : s \in shorter, x \in S}

Slices == SeqsUpTo(Bytes, MaxWrite)

\* Len(consumed) at the last reset, given the flushes a call ran.
RECURSIVE LastReset(_, _)
LastReset(entries, start) ==
    IF entries = <<>> THEN start
    ELSE LastReset(Tail(entries),
                   IF Head(entries).res = "Ok" THEN Head(entries).at ELSE start)

Store(s) ==
    /\ w' = s.w
    /\ wpad' = s.wpad
    /\ buf' = s.buf
    /\ lines' = s.lines
    /\ curcell' = s.curcell
    /\ minwidth' = s.minwidth
    /\ padding' = s.padding

Init ==
    /\ w = new.w
    /\ wpad = new.wpad
    /\ buf = new.buf
    /\ lines = new.lines
    /\ curcell = new.curcell
    /\ minwidth = new.minwidth
    /\ padding = new.padding
    /\ consumed = <<>>
    /\ roundStart = 0
    /\ call = [op |-> "new", res |-> "Ok", after |-> "Ok", nproc |-> 0,
                unread |-> <<>>, plan |-> NoSinkCall]
    /\ log = <<>>
    /\ fails = 0
    /\ dirty = FALSE

CallWrite(bytes, plan) ==
    /\ call.res # "Panic"
    /\ \E r \in {write(self, bytes, plan, Len(consumed), roundStart)} :
           /\ Store(r.self)
           /\ consumed' = consumed \o SubSeq(bytes, 1, r.nproc)
           /\ roundStart' = LastReset(r.log, roundStart)
           /\ call' = [op |-> "write", res |-> r.res, after |-> call.res,
                       nproc |-> r.nproc,
                       unread |-> SubSeq(bytes, r.nproc + 1, Len(bytes)),
                       plan |-> plan]
           /\ log' = r.log
           /\ fails' = IF r.res = "Err" THEN fails + 1 ELSE fails
           /\ dirty' = IF r.log = <<>> THEN dirty ELSE r.res = "Err"

CallFlush(plan) ==
    /\ call.res # "Panic"
    /\ \E f \in {flush(self, plan)} :
           /\ Store(f.self)
           /\ consumed' = consumed
           /\ roundStart' = IF f.res = "Ok" THEN Len(consumed) ELSE roundStart
           /\ call' = [op |-> "flush", res |-> f.res, after |-> call.res,
                       nproc |-> 0, unread |-> <<>>, plan |-> plan]
           /\ log' = <<LogEntry(f, roundStart, Len(consumed), FALSE)>>
           /\ fails' = IF f.res = "Err" THEN fails + 1 ELSE fails
           /\ dirty' = (f.res = "Err")

\* The builder methods take the TabWriter by value and hand it back: they
\* are called in the chain that constructs it, TabWriter::new(w).minwidth(n)
\* .padding(n), before the first write.
CallMinwidth(n) ==
    /\ call.op \in {"new", "minwidth", "padding"}
    /\ minwidth' = n
    /\ call' = [op |-> "minwidth", res |-> "Ok", after |-> call.res,
                nproc |-> 0, unread |-> <<>>, plan |-> NoSinkCall]
    /\ log' = <<>>
    /\ UNCHANGED <<w, wpad, buf, lines, curcell, padding, consumed,
                   roundStart, fails, dirty>>

CallPadding(n) ==
    /\ call.op \in {"new", "minwidth", "padding"}
    /\ padding' = n
    /\ call' = [op |-> "padding", res |-> "Ok", after |-> call.res,
                nproc |-> 0, unread |-> <<>>, plan |-> NoSinkCall]
    /\ log' = <<>>
    /\ UNCHANGED <<w, wpad, buf, lines, curcell, minwidth, consumed,
                   roundStart, fails, dirty>>

\* The sink may fail in at most MaxFails calls of a behaviour.
Allowed(plan) == plan.failing => fails < MaxFails

Next ==
    \/ \E bytes \in Slices, plan \in Plans :
            /\ Len(consumed) + Len(bytes) <= MaxInput
            /\ Allowed(plan)
            /\ CallWrite(bytes, plan)
    \/ \E plan \in Plans : Allowed(plan) /\ CallFlush(plan)
    \/ \E n \in MinwidthValues : CallMinwidth(n)
    \/ \E n \in PaddingValues : CallPadding(n)

Spec == Init /\ [][Next]_vars

\* ------------------------------------------------- drawn states (SpecCW)
\* cell_widths and the emission of flush are functions of the lines, the
\* backing bytes and the configuration. SpecCW draws these from bounded sets
\* and applies flush: a state holds the lines of a round (each completed
\* line with at least one cell, any number of cells in the current line),
\* every cell of width k holding k letters, the cells tiling buf.
DrawnWidths == {0, 3}

RECURSIVE SeqSum(_)
SeqSum(s) == IF s = <<>> THEN 0 ELSE Head(s) + SeqSum(Tail(s))

\* All lists of non-empty lines (a line is the list of its cells' widths)
\* with exactly n cells.
RECURSIVE LinesWith(_)
LinesWith(n) ==
    IF n = 0 THEN {<<>>}
    ELSE UNION {
            {<<first>> \o rest :
                first \in [1..k -> DrawnWidths], rest \in LinesWith(n - k)}
            : k \in 1..n}

Shapes ==
    UNION {
        {ls \in LinesWith(n) : ls # <<>>}
            \cup {Append(ls, <<>>) : ls \in LinesWith(n)}
        : n \in 0..MaxCells}

RECURSIVE tile_line(_, _)
tile_line(ws, off) ==
    IF ws = <<>> THEN <<>>
    ELSE <<[start |-> off, width |-> Head(ws), size |-> Head(ws)]>>
            \o tile_line(Tail(ws), off + Head(ws))

RECURSIVE tile_lines(_, _)
tile_lines(shape, off) ==
    IF shape = <<>> THEN <<>>
    ELSE <<tile_line(Head(shape), off)>>
            \o tile_lines(Tail(shape), off + SeqSum(Head(shape)))

RECURSIVE shape_size(_)
shape_size(shape) ==
    IF shape = <<>> THEN 0
    ELSE SeqSum(Head(shape)) + shape_size(Tail(shape))

InitCW ==
    \E shape \in Shapes, mw \in MinwidthValues, pd \in PaddingValues :
        /\ w = <<>>
        /\ wpad = {}
        /\ buf = [k \in 1..shape_size(shape) |-> 97]
        /\ lines = tile_lines(shape, 0)
        /\ curcell = Cell_new(shape_size(shape))
        /\ minwidth = mw
        /\ padding = pd
        /\ consumed = <<>>
        /\ roundStart = 0
        /\ call = [op |-> "new", res |-> "Ok", after |-> "Ok", nproc |-> 0,
                unread |-> <<>>, plan |-> NoSinkCall]
        /\ log = <<>>
        /\ fails = 0
        /\ dirty = FALSE

NextCW == call.op = "new" /\ CallFlush([failing |-> FALSE, ok |-> 0])

SpecCW == InitCW /\ [][NextCW]_vars

\* ------------------------------------------------ writes, then one flush
\* A TabWriter is constructed, is given a byte sequence of up to MaxInput
\* bytes in any slices of up to MaxWrite bytes (empty ones too), and is
\* flushed once at the end; the sink accepts everything.
NextSlices ==
    \/ \E bytes \in Slices :
            /\ Len(consumed) + Len(bytes) <= MaxInput
            /\ call.op # "flush"
            /\ CallWrite(bytes, NoSinkCall)
    \/ call.op # "flush" /\ CallFlush(NoSinkCall)
    \/ \E n \in MinwidthValues : CallMinwidth(n)
    \/ \E n \in PaddingValues : CallPadding(n)

SpecSlices == Init /\ [][NextSlices]_vars

\* ------------------------------------------- cell_widths on any Vec<Vec<Cell>>
\* cell_widths takes any list of lines. flush passes it lists whose lines
\* all have a cell, except perhaps the last; here it gets every list of up
\* to MaxListLines lines of up to MaxLineCells cells, empty lines anywhere.
ListShapes ==
    UNION {[1..n -> UNION {[1..k -> {3}] : k \in 0..MaxLineCells}]
            : n \in 0..MaxListLines}

InitLists ==
    \E shape \in ListShapes, mw \in MinwidthValues :
        /\ w = <<>>
        /\ wpad = {}
        /\ buf = [k \in 1..shape_size(shape) |-> 97]
        /\ lines = tile_lines(shape, 0)
        /\ curcell = Cell_new(shape_size(shape))
        /\ minwidth = mw
        /\ padding = DefaultPadding
        /\ consumed = <<>>
        /\ roundStart = 0
        /\ call = [op |-> "new", res |-> "Ok", after |-> "Ok", nproc |-> 0,
                    unread |-> <<>>, plan |-> NoSinkCall]
        /\ log = <<>>
        /\ fails = 0
        /\ dirty = FALSE

SpecLists == InitLists /\ [][NextCW]_vars

\* ------------------------------------------------------------------ claims
\* Column `col` (0-based) is a column of line j that is not its last cell.
InnerColumn(ls, j, col) == col + 1 < Len(ls[j])

\* The maximal run of consecutive lines around line j that all have more
\* than col + 1 cells.
RunOf(ls, j, col) ==
    {k \in 1..Len(ls) :
        \A m \in (IF k < j THEN k ELSE j)..(IF k < j THEN j ELSE k) :
            InnerColumn(ls, m, col)}

SetMax(S) == CHOOSE m \in S : \A x \in S : x <= m

\* C1: in every flush, the width cell_widths assigns to line j at a column
\* col that is not the line's last cell is max(minwidth, the largest
\* cell.width at col over the maximal run of lines around j that all have
\* more than col+1 cells); no line outside the run influences it.
C1_WidthIsMaxOverRun ==
    \A n \in 1..Len(log) :
        LET ls == log[n].pre.lines
            ws == log[n].widths
        IN  \A j \in 1..Len(ls) : \A col \in 0..(Len(ls[j]) - 2) :
                /\ Len(ws[j]) > col
                /\ ws[j][col + 1] =
                     Max(log[n].pre.minwidth,
                         SetMax({ls[k][col + 1].width : k \in RunOf(ls, j, col)}))

\* A flush in which a column block of two or more lines got its width while
\* a line outside the block holds a wider cell at the same index.
C1_Witness ==
    \E n \in 1..Len(log) :
        LET ls == log[n].pre.lines
            ws == log[n].widths
        IN  \E j \in 1..Len(ls) : \E col \in 0..(Len(ls[j]) - 2) :
                /\ Cardinality(RunOf(ls, j, col)) >= 2
                /\ \E k \in 1..Len(ls) :
                        /\ k \notin RunOf(ls, j, col)
                        /\ Len(ls[k]) > col
                        /\ ls[k][col + 1].width > ws[j][col + 1]
                /\ \E k \in RunOf(ls, j, col) :
                        ls[k][col + 1].width < ws[j][col + 1]

\* The sink calls of flush e that wrote padding after cell i (1-based) of
\* line j, and the number of spaces they wrote.
PadChunks(e, j, i) ==
    {x \in 1..Len(e.chunks) :
        /\ e.chunks[x].kind = "pad"
        /\ e.chunks[x].line = j
        /\ e.chunks[x].idx = i}

SpacesAfter(e, j, i) ==
    IF PadChunks(e, j, i) = {} THEN 0
    ELSE Len(e.chunks[CHOOSE x \in PadChunks(e, j, i) : TRUE].bytes)

\* The display column at which the cell after cells 1..i of line j starts.
RECURSIVE StartColumn(_, _, _)
StartColumn(e, j, i) ==
    IF i = 0 THEN 0
    ELSE StartColumn(e, j, i - 1)
            + e.pre.lines[j][i].width + SpacesAfter(e, j, i)

\* C2: in the output of one flush, two lines of the same column block at
\* column col (consecutive lines that all have more than col+1 cells) start
\* their cell col+1 at the same display column: the sums over c <= col of
\* cell c's width plus the spaces emitted after cell c are equal.
C2_BlockCellsStartAligned ==
    \A n \in 1..Len(log) :
        log[n].res = "Ok" =>
            LET ls == log[n].pre.lines
            IN  \A j1 \in 1..Len(ls) : \A col \in 0..(Len(ls[j1]) - 2) :
                    \A j2 \in RunOf(ls, j1, col) :
                        StartColumn(log[n], j1, col + 1)
                            = StartColumn(log[n], j2, col + 1)

\* A successful flush with two lines of one block at column 1 whose cells
\* differ in width both at column 0 and at column 1.
C2_Witness ==
    \E n \in 1..Len(log) :
        /\ log[n].res = "Ok"
        /\ LET ls == log[n].pre.lines
           IN  \E j1 \in 1..Len(ls) : \E j2 \in RunOf(ls, j1, 1) :
                    /\ InnerColumn(ls, j1, 1)
                    /\ ls[j1][1].width # ls[j2][1].width
                    /\ ls[j1][2].width # ls[j2][2].width
                    /\ StartColumn(log[n], j1, 2) > 0

RECURSIVE Flatten(_)
Flatten(chunks) ==
    IF chunks = <<>> THEN <<>>
    ELSE Head(chunks).bytes \o Flatten(Tail(chunks))

\* The bytes of cell c in the backing buffer b.
CellBytes(b, c) == SubSeq(b, c.start + 1, c.start + c.size)

\* C3: in every flush no assertion fails, and for every cell that is not the
\* last cell of its line the assigned width is at least the cell's width
\* and the sink receives, right after the cell's bytes, exactly
\* padding + (assigned width - cell.width) spaces, never fewer than padding
\* (unless the sink fails at that very call, which ends the flush).
C3_GapIsPaddingPlusDeficit ==
    \A n \in 1..Len(log) :
        LET e == log[n]
            ls == e.pre.lines
        IN  /\ e.res # "Panic"
            /\ e.post.w = e.pre.w \o Flatten(e.chunks)
            /\ \A x \in 1..Len(e.chunks) :
                LET ch == e.chunks[x]
                IN  (ch.kind = "cell" /\ ch.idx < Len(ls[ch.line])) =>
                        LET cell == ls[ch.line][ch.idx]
                            width == e.widths[ch.line][ch.idx]
                        IN  /\ ch.bytes = CellBytes(e.pre.buf, cell)
                            /\ width >= cell.width
                            /\ IF x = Len(e.chunks) THEN e.res = "Err"
                               ELSE /\ e.chunks[x + 1].kind = "pad"
                                    /\ e.chunks[x + 1].bytes =
                                         Spaces(e.pre.padding + width - cell.width)
                                    /\ Len(e.chunks[x + 1].bytes) >= e.pre.padding

\* A flush that wrote more than padding spaces after a non-empty cell that
\* is not the last of its line.
C3_Witness ==
    \E n \in 1..Len(log) : \E x \in 1..Len(log[n].chunks) :
        LET e == log[n]
            ch == e.chunks[x]
        IN  /\ ch.kind = "pad"
            /\ e.pre.lines[ch.line][ch.idx].width > 0
            /\ Len(ch.bytes) > e.pre.padding
            /\ e.pre.padding > 0

\* C4: cell_widths returns, for every line, exactly one width per cell
\* except the line's last cell (none for an empty line); in emission no
\* assertion fails and nothing is written between the bytes of a line's last
\* cell and the newline of the next line (or the end of the output).
C4_LastCellUnpadded ==
    \A n \in 1..Len(log) :
        LET e == log[n]
            ls == e.pre.lines
        IN  /\ e.res # "Panic"
            /\ Len(e.widths) = Len(ls)
            /\ \A j \in 1..Len(ls) :
                /\ Len(e.widths[j]) = IF ls[j] = <<>> THEN 0 ELSE Len(ls[j]) - 1
                /\ PadChunks(e, j, Len(ls[j])) = {}
            /\ \A x \in 1..Len(e.chunks) :
                (/\ e.chunks[x].kind = "cell"
                 /\ e.chunks[x].idx = Len(ls[e.chunks[x].line])
                 /\ x < Len(e.chunks)) => e.chunks[x + 1].kind = "nl"

\* A successful flush with padding configured whose line of three cells got
\* spaces after its first two cells, the last cell being followed by the
\* next line's newline.
C4_Witness ==
    \E n \in 1..Len(log) :
        LET e == log[n]
        IN  /\ e.res = "Ok"
            /\ e.pre.padding > 0
            /\ Len(e.pre.lines) >= 2
            /\ Len(e.pre.lines[1]) = 3
            /\ e.pre.lines[1][3].width > 0
            /\ PadChunks(e, 1, 1) # {}
            /\ PadChunks(e, 1, 2) # {}
            /\ \E x \in 1..(Len(e.chunks) - 1) :
                /\ e.chunks[x].kind = "cell"
                /\ e.chunks[x].line = 1
                /\ e.chunks[x].idx = 3
                /\ e.chunks[x + 1].kind = "nl"

\* The positions of consumed that hold a newline of the round flush e saw,
\* and the position of the newline that ended line j of that round.
RoundNewlines(e) == {k \in (e.from + 1)..e.at : consumed[k] = NL}

EndOfLine(e, j) ==
    CHOOSE k \in RoundNewlines(e) :
        Cardinality({m \in RoundNewlines(e) : m <= k}) = j

\* The input line that the newline at position k of consumed ends holds no
\* tab byte.
NoTabLine(k) ==
    /\ consumed[k] = NL
    /\ \A m \in 1..(k - 1) :
            consumed[m] = TAB => \E q \in (m + 1)..(k - 1) : consumed[q] = NL

\* The content bytes of an input: what is left without tabs and newlines.
Content(bytes) == SelectSeq(bytes, LAMBDA b : b \notin {TAB, NL})

WithoutTabs(bytes) == SelectSeq(bytes, LAMBDA b : b # TAB)

\* The bytes a flush wrote that are not padding.
RECURSIVE Unpadded(_)
Unpadded(chunks) ==
    IF chunks = <<>> THEN <<>>
    ELSE (IF Head(chunks).kind = "pad" THEN <<>> ELSE Head(chunks).bytes)
            \o Unpadded(Tail(chunks))

\* C5: whenever a write call processes the newline that ends an input line
\* without a tab byte, flush runs at that newline, before any later byte is
\* buffered; when it succeeds the sink has received the lines of the round
\* up to and including that newline and the buffer is empty.
C5_NoTabLineFlushesAtOnce ==
    call.op = "write" =>
        \A k \in (Len(consumed) - call.nproc + 1)..Len(consumed) :
            NoTabLine(k) =>
                \E n \in 1..Len(log) :
                    LET e == log[n]
                    IN  /\ e.early
                        /\ e.at = k
                        /\ e.pre.buf = Content(SubSeq(consumed, e.from + 1, k))
                        /\ e.res = "Ok" =>
                            /\ Unpadded(e.chunks)
                                 = WithoutTabs(SubSeq(consumed, e.from + 1, k))
                            /\ e.post.w = e.pre.w \o Flatten(e.chunks)
                            /\ e.post.buf = <<>>
                            /\ e.post.lines = << <<>> >>
                            /\ e.post.curcell = Cell_new(0)

\* C6: a completed input line without a tab byte gets no column alignment:
\* in every flush it is one cell, no padding is written after it (or inside
\* it), and it is part of no column block, so that its width enters no
\* column's width.
C6_NoTabLineNeverAligned ==
    \A n \in 1..Len(log) :
        LET e == log[n]
        IN  \A j \in 1..(Len(e.pre.lines) - 1) :
                NoTabLine(EndOfLine(e, j)) =>
                    /\ Len(e.pre.lines[j]) = 1
                    /\ e.widths[j] = <<>>
                    /\ \A i \in 1..Len(e.pre.lines[j]) : PadChunks(e, j, i) = {}
                    /\ \A col \in 0..Len(e.pre.lines[j]) :
                            ~InnerColumn(e.pre.lines, j, col)

\* The bytes the sink holds from position k on, without those that flush
\* wrote as padding.
RECURSIVE SinkWithoutPadding(_)
SinkWithoutPadding(k) ==
    IF k > Len(w) THEN <<>>
    ELSE (IF k \in wpad THEN <<>> ELSE <<w[k]>>) \o SinkWithoutPadding(k + 1)

\* C7: after a flush call that ends a sequence of write and flush calls in
\* which no sink write failed, the sink's bytes without the emitted padding
\* (which is spaces only) are the consumed bytes without the tab bytes:
\* every consumed newline is there once, in order, and no newline follows
\* the final line.
C7_OutputIsInputWithoutTabs ==
    (fails = 0 /\ call.op = "flush") =>
        /\ call.res = "Ok"
        /\ \A k \in wpad : k \in 1..Len(w) /\ w[k] = SPACE
        /\ SinkWithoutPadding(1) = WithoutTabs(consumed)

\* A failure-free sequence ending with a flush whose input held a tab, a
\* newline and a last line without a newline, and whose output is padded.
C7_Witness ==
    /\ fails = 0
    /\ call.op = "flush"
    /\ call.res = "Ok"
    /\ \E k \in 1..Len(consumed) : consumed[k] = TAB
    /\ \E k \in 1..(Len(consumed) - 1) : consumed[k] = NL
    /\ consumed[Len(consumed)] \notin {TAB, NL}
    /\ wpad # {}
    /\ w[Len(w)] = consumed[Len(consumed)]

\* The bytes handed to the write call that made the step: those it consumed
\* and those it left unread.
CallBytes ==
    SubSeq(consumed', Len(consumed) + 1, Len(consumed')) \o call'.unread

\* Processing bytes, on a current line that holds ncells terminated cells,
\* ends some line at a newline with exactly one cell (the cell the newline
\* itself terminates).
RECURSIVE CompletesOneCellLine(_, _)
CompletesOneCellLine(ncells, bytes) ==
    IF bytes = <<>> THEN FALSE
    ELSE IF Head(bytes) = TAB
    THEN CompletesOneCellLine(ncells + 1, Tail(bytes))
    ELSE IF Head(bytes) = NL
    THEN ncells = 0 \/ CompletesOneCellLine(0, Tail(bytes))
    ELSE CompletesOneCellLine(ncells, Tail(bytes))

\* C8: a write call whose bytes complete no line of exactly one cell runs
\* no flush, writes nothing to the sink, reads all its bytes and returns
\* Ok, whatever the sink would do (every sink plan, also the one that fails
\* the first write, is a step of Next); its content bytes are added to the
\* buffer and stay there.
C8_WriteWithoutEarlyFlushLeavesSink ==
    [][(/\ call'.op = "write"
        /\ ~CompletesOneCellLine(Len(lines[Len(lines)]), CallBytes))
            => /\ w' = w
               /\ wpad' = wpad
               /\ call'.res = "Ok"
               /\ call'.unread = <<>>
               /\ log' = <<>>
               /\ buf' = buf \o Content(CallBytes)]_vars

\* A write call given a sink that fails its first write returned Ok after
\* reading a newline that ended a line of two cells: nothing has ever been
\* sent to the sink and the completed line is held in the buffer.
C8_Witness ==
    /\ call.op = "write"
    /\ call.plan = [failing |-> TRUE, ok |-> 0]
    /\ call.res = "Ok"
    /\ call.nproc > 0
    /\ consumed[Len(consumed)] = NL
    /\ log = <<>>
    /\ w = <<>>
    /\ Len(lines) = 2
    /\ Len(lines[1]) = 2
    /\ buf # <<>>

\* Sequence a is an initial part of sequence b.
Prefix(a, b) == Len(a) <= Len(b) /\ SubSeq(b, 1, Len(a)) = a

\* C9: when a call returned Err, a sink write failed in the last flush it
\* ran; that flush sent the sink the chunks written before the failing one
\* and nothing after it, and left lines, cells and backing bytes as they
\* were when emission began (no reset); they are still held when flush is
\* called next. That flush starts the round's output again at its first
\* chunk and, if the sink accepts all of it, appends to the sink the whole
\* output of the round (the round's consumed bytes without tabs, plus
\* padding), of which the chunks sent by the failed attempt are a strict
\* initial part, and then resets the buffer.
C9_FailedFlushKeepsRound ==
    [][(call.res = "Err" /\ call'.op = "flush") =>
        LET failed == log[Len(log)]
            retry == log'[1]
        IN  /\ failed.res = "Err"
            /\ failed.post.w = failed.pre.w \o Flatten(failed.chunks)
            /\ failed.post.lines = failed.pre.lines
            /\ failed.post.buf = failed.pre.buf
            /\ failed.post.curcell = failed.pre.curcell
            /\ lines = failed.pre.lines
            /\ buf = failed.pre.buf
            /\ curcell = failed.pre.curcell
            /\ retry.pre.lines = failed.pre.lines
            /\ retry.pre.buf = failed.pre.buf
            /\ \/ Prefix(failed.chunks, retry.chunks)
               \/ Prefix(retry.chunks, failed.chunks)
            /\ retry.res = "Ok" =>
                /\ Prefix(failed.chunks, retry.chunks)
                /\ Len(failed.chunks) < Len(retry.chunks)
                /\ w' = w \o Flatten(retry.chunks)
                /\ Unpadded(retry.chunks)
                     = WithoutTabs(SubSeq(consumed, roundStart + 1,
                                          Len(consumed)))
                /\ buf' = <<>>
                /\ lines' = << <<>> >>
                /\ curcell' = Cell_new(0)]_vars

\* A flush that succeeded right after a call that returned Err, in the first
\* round: the sink holds what the failed attempt sent, followed by the whole
\* output of the round, padding included, and the buffer is reset.
C9_Witness ==
    /\ call.op = "flush"
    /\ call.res = "Ok"
    /\ call.after = "Err"
    /\ log[1].from = 0
    /\ log[1].pre.w # <<>>
    /\ log[1].pre.buf # <<>>
    /\ \E x \in 1..Len(log[1].chunks) : log[1].chunks[x].kind = "pad"
    /\ w = log[1].pre.w \o Flatten(log[1].chunks)
    /\ Prefix(log[1].pre.w, Flatten(log[1].chunks))
    /\ buf = <<>>

\* What the sink of a freshly constructed TabWriter with the given minwidth
\* and padding receives when bytes are written in one call and flushed, the
\* sink accepting everything.
Render(bytes, mw, pad) ==
    With([new EXCEPT !.minwidth = mw, !.padding = pad], LAMBDA fresh :
    With(write(fresh, bytes, NoSinkCall, 0, 0), LAMBDA r :
        flush(r.self, NoSinkCall).self.w))

\* Flush number n of the call that made the step belongs to a round in which
\* no flush has failed: a later flush of a write call runs right after a
\* reset, the first one starts from the state the call found.
CleanRound(n) == n > 1 \/ ~dirty

C11_FlushOfEmptyRoundWritesNothing ==
    [][(call'.op = "flush" /\ roundStart = Len(consumed)) =>
            /\ call'.res = "Ok"
            /\ w' = w
            /\ wpad' = wpad
            /\ log'[1].chunks = <<>>
            /\ <<buf, lines, curcell>> = <<new.buf, new.lines, new.curcell>>
            /\ <<buf', lines', curcell'>> = <<buf, lines, curcell>>]_vars
        /\ [][(call.op = "flush" /\ call.res = "Ok" /\ call'.op = "flush") =>
                w' = w]_vars

\* A flush call, given a sink that fails its first write, returned Ok and
\* sent nothing: no byte had been consumed since the last successful flush,
\* which had sent the sink padded output.
C11_Witness ==
    /\ call.op = "flush"
    /\ call.res = "Ok"
    /\ call.after = "Ok"
    /\ call.plan = [failing |-> TRUE, ok |-> 0]
    /\ log[1].from = Len(consumed)
    /\ log[1].chunks = <<>>
    /\ consumed # <<>>
    /\ wpad # {}
    /\ w = log[1].pre.w

\* The number of cells of the lines ls that are not the last of their line.
RECURSIVE NonTrailing(_)
NonTrailing(ls) ==
    IF ls = <<>> THEN 0
    ELSE (IF Head(ls) = <<>> THEN 0 ELSE Len(Head(ls)) - 1)
            + NonTrailing(Tail(ls))

\* C12: in the cell_widths of every flush, each cell that is not the last
\* of its line has its width read exactly once and gets its width pushed
\* exactly once, nothing else is read or pushed, and a width for column col
\* is pushed onto a line that holds exactly col widths; the iterations of
\* the inner loop are the reads plus at most one breaking iteration per
\* (line, column) the outer loops reach, at most twice the number of such
\* cells.
C12_EachColumnCellVisitedOnce ==
    \A n \in 1..Len(log) :
        LET ls == log[n].pre.lines
            wk == log[n].work
        IN  /\ \A j \in 1..Len(ls) : \A col \in 0..(Len(ls[j]) - 2) :
                /\ Cardinality({x \in 1..Len(wk.reads) :
                                    wk.reads[x] = <<j, col>>}) = 1
                /\ Cardinality({x \in 1..Len(wk.pushes) :
                                    /\ wk.pushes[x].line = j
                                    /\ wk.pushes[x].col = col}) = 1
            /\ Len(wk.reads) = NonTrailing(ls)
            /\ Len(wk.pushes) = NonTrailing(ls)
            /\ \A x \in 1..Len(wk.pushes) : wk.pushes[x].held = wk.pushes[x].col
            /\ Len(wk.runs) <= NonTrailing(ls)
            /\ wk.visits <= Len(wk.reads) + Len(wk.runs)
            /\ wk.visits <= 2 * NonTrailing(ls)

\* A flush of three or more lines in which a run of two or more lines was
\* scanned at once, a later line started its own scan at a column above 0
\* (its lower columns had their widths already) and a scan ended at a line
\* that broke the run.
C12_Witness ==
    \E n \in 1..Len(log) :
        LET wk == log[n].work
        IN  /\ Len(log[n].pre.lines) >= 3
            /\ \E x \in 1..Len(wk.runs) : wk.runs[x].contig_count >= 2
            /\ \E x \in 1..Len(wk.runs) :
                    wk.runs[x].line >= 2 /\ wk.runs[x].col >= 1
            /\ wk.visits > Len(wk.reads)
            /\ Len(wk.reads) >= 4

\* C13: in cell_widths, for every list of lines, empty lines included, each
\* (line i, column col) the outer loops reach has col below the last cell
\* of line i, the scan from line i reads line i first, so that its run
\* length is at least 1 and assert!(contig_count >= 1) does not fail; empty
\* lines are reached by no column loop.
C13_RunContainsItsFirstLine ==
    \A n \in 1..Len(log) :
        LET ls == log[n].pre.lines
            wk == log[n].work
        IN  /\ log[n].res # "Panic"
            /\ \A x \in 1..Len(wk.runs) :
                LET r == wk.runs[x]
                IN  /\ r.contig_count >= 1
                    /\ ls[r.line] # <<>>
                    /\ r.col + 1 < Len(ls[r.line])
                    /\ \E y \in 1..Len(wk.reads) :
                            wk.reads[y] = <<r.line, r.col>>
                    /\ \A j \in r.line..(r.line + r.contig_count - 1) :
                            j <= Len(ls) /\ r.col + 1 < Len(ls[j])
            /\ \A j \in 1..Len(ls) :
                Len(ls[j]) >= 2 => \E x \in 1..Len(wk.runs) :
                    /\ wk.runs[x].line <= j
                    /\ j < wk.runs[x].line + wk.runs[x].contig_count

\* A list that starts with an empty line and has another empty line
\* between two lines of several cells: the column loop ran for the line
\* after the empty line, and one of its runs was that line alone.
C13_Witness ==
    \E n \in 1..Len(log) :
        LET ls == log[n].pre.lines
            wk == log[n].work
        IN  /\ Len(ls) >= 4
            /\ ls[1] = <<>>
            /\ Len(ls[2]) >= 2
            /\ ls[3] = <<>>
            /\ Len(ls[4]) >= 3
            /\ \E x \in 1..Len(wk.runs) :
                    /\ wk.runs[x].line = 4
                    /\ wk.runs[x].col = 1
                    /\ wk.runs[x].contig_count = 1

\* The lines after hold the lines before unchanged and in place: the same
\* lines, the last of them perhaps with cells appended, perhaps followed by
\* new lines.
Extends(before, after) ==
    /\ Len(after) >= Len(before)
    /\ \A j \in 1..(Len(before) - 1) : after[j] = before[j]
    /\ Prefix(before[Len(before)], after[Len(before)])

\* C14: the in-progress cell has width 0 in every state, and every
\* terminated cell keeps its place, start, size and width (the display
\* columns of its bytes) until a reset: the first flush a call runs sees
\* the lines the call found, extended only, and a call in which no flush
\* succeeded leaves them in the buffer, extended only.
C14_TerminatedCellsAreFrozen ==
    [][/\ curcell.width = 0
       /\ curcell'.width = 0
       /\ \A j \in 1..Len(lines') : \A i \in 1..Len(lines'[j]) :
            lines'[j][i] = update_width(lines'[j][i], buf')
       /\ log' # <<>> => Extends(lines, log'[1].pre.lines)
       /\ (\A n \in 1..Len(log') : log'[n].res # "Ok") =>
            /\ Extends(lines, lines')
            /\ Prefix(buf, buf')]_vars

\* A write call without a flush added a cell and a line to the two cells an
\* earlier call had left in the buffer, one of them of width 1, and the
\* in-progress cell holds a byte of width 1 while its width field is 0.
C14_Witness ==
    /\ call.op = "write"
    /\ log = <<>>
    /\ call.nproc > 0
    /\ Len(consumed) > call.nproc
    /\ roundStart = 0
    /\ Len(lines) = 2
    /\ Len(lines[1]) >= 2
    /\ \E i \in 1..Len(lines[1]) : lines[1][i].width = 1
    /\ curcell.size = 1
    /\ display_columns(SubSeq(buf, curcell.start + 1, Len(buf))) = 1
    /\ consumed[Len(consumed) - call.nproc] # NL

\* The TabWriter, with the sink it wrote to, after one write call that is
\* given all of bytes at once, on a TabWriter constructed with minwidth mw
\* and padding pad and a sink that accepts everything.
OneWrite(bytes, mw, pad) ==
    With([new EXCEPT !.minwidth = mw, !.padding = pad], LAMBDA fresh :
        write(fresh, bytes, NoSinkCall, 0, 0).self)

\* C15: with a sink that accepts everything, after the bytes consumed so
\* far were written in any slices, the TabWriter (buffer, lines, cells) and
\* the sink are those of one write call given all the bytes at once; and
\* after the flush that ends the sequence they are those of that one write
\* call followed by flush.
C15_SlicingDoesNotMatter ==
    /\ call.res = "Ok"
    /\ call.op # "flush" => self = OneWrite(consumed, minwidth, padding)
    /\ call.op = "flush" =>
            self = flush(OneWrite(consumed, minwidth, padding),
                         NoSinkCall).self

\* The final flush of a sequence of MaxInput bytes with a cell of three
\* bytes after a tab, which slices of at most MaxWrite bytes
\* must split inside: the sink holds padded output ending with that cell.
C15_Witness ==
    /\ call.op = "flush"
    /\ Len(consumed) = 4
    /\ consumed[1] = TAB
    /\ \A k \in 2..4 : consumed[k] \notin {TAB, NL}
    /\ wpad # {}
    /\ Len(w) > 4
    /\ SubSeq(w, Len(w) - 2, Len(w)) = SubSeq(consumed, 2, 4)

\* C16: as long as no sink write has failed, in the state every write or
\* flush call returns in, every line but the current one has two or more
\* cells; a line of one cell was flushed at its newline, so that the buffer
\* holds nothing consumed before the newline of the last line without a
\* tab, and only the bytes consumed after the last successful flush.
C16_NoOneCellLineRetained ==
    fails = 0 =>
        /\ \A j \in 1..(Len(lines) - 1) : Len(lines[j]) >= 2
        /\ \A k \in 1..Len(consumed) : NoTabLine(k) => roundStart >= k
        /\ buf = Content(SubSeq(consumed, roundStart + 1, Len(consumed)))

\* No sink write has failed, a line without a tab was flushed at its
\* newline, and the line consumed after it, which has a tab, is retained
\* with its two cells although its newline has been processed.
C16_Witness ==
    /\ fails = 0
    /\ call.op = "write"
    /\ roundStart >= 1
    /\ roundStart < Len(consumed)
    /\ NoTabLine(roundStart)
    /\ consumed[Len(consumed)] = NL
    /\ w # <<>>
    /\ Len(lines) = 2
    /\ Len(lines[1]) = 2
    /\ buf # <<>>

\* The cells of the lines ls, in line order.
RECURSIVE CellsOf(_)
CellsOf(ls) == IF ls = <<>> THEN <<>> ELSE Head(ls) \o CellsOf(Tail(ls))

\* The cells, each starting where the one before ends, cover 0..len.
Tiles(cells, len) ==
    /\ cells[1].start = 0
    /\ \A x \in 2..Len(cells) :
            cells[x].start = cells[x - 1].start + cells[x - 1].size
    /\ cells[Len(cells)].start + cells[Len(cells)].size = len

\* C17: in every state between calls the terminated cells in line order,
\* followed by the in-progress cell, tile the backing buffer: the first
\* starts at 0, each starts where the one before ends, and the in-progress
\* cell ends at the end of the buffer. The same holds when a flush begins to
\* emit, so that every cell it sends lies inside the buffer.
C17_CellsTileTheBuffer ==
    /\ Tiles(Append(CellsOf(lines), curcell), Len(buf))
    /\ \A n \in 1..Len(log) :
        LET pre == log[n].pre
        IN  /\ Tiles(Append(CellsOf(pre.lines), pre.curcell), Len(pre.buf))
            /\ \A x \in 1..Len(log[n].chunks) :
                LET ch == log[n].chunks[x]
                IN  ch.kind = "cell" =>
                        LET cell == pre.lines[ch.line][ch.idx]
                        IN  /\ cell.start + cell.size <= Len(pre.buf)
                            /\ ch.bytes = CellBytes(pre.buf, cell)

\* Two lines in the buffer: a cell with a byte and an empty cell on the
\* first, and an in-progress cell that holds a byte and starts past 0.
C17_Witness ==
    /\ Len(lines) = 2
    /\ Len(lines[1]) = 2
    /\ lines[1][1].size > 0
    /\ lines[1][2].size = 0
    /\ curcell.start > 0
    /\ curcell.size > 0
    /\ Len(buf) = 2

\* The flush of the TabWriter s after it was given a newline, the sink
\* accepting everything.
FlushAfterNewline(s) ==
    With(write(s, <<NL>>, NoSinkCall, 0, 0).self, LAMBDA ended :
        flush(ended, NoSinkCall))

\* The bytes at the end of bytes that follow its last tab or newline.
RECURSIVE TailContent(_)
TailContent(bytes) ==
    IF bytes = <<>> \/ bytes[Len(bytes)] \in {TAB, NL} THEN <<>>
    ELSE Append(TailContent(SubSeq(bytes, 1, Len(bytes) - 1)),
                bytes[Len(bytes)])

\* What a step that is a flush call does to the in-progress cell and, when
\* the buffered input ends with a tab, to the line that tab is on.
FlushAfterTab ==
    call'.op = "flush" =>
        LET e == log'[1]
            last == Len(lines)
            line == lines[last]
        IN  /\ curcell.size > 0 =>
                /\ e.pre.lines =
                     [lines EXCEPT ![last] =
                        Append(line, update_width(curcell, buf))]
                /\ e.pre.curcell = Cell_new(Len(buf))
            /\ curcell.size = 0 =>
                /\ e.pre.lines = lines
                /\ e.pre.curcell = curcell
            /\ (/\ roundStart < Len(consumed)
                /\ consumed[Len(consumed)] = TAB) =>
                /\ curcell.size = 0
                /\ line # <<>>
                /\ e.pre.lines[last] = line
                /\ CellBytes(buf, line[Len(line)])
                     = TailContent(SubSeq(consumed, roundStart + 1,
                                          Len(consumed) - 1))
                /\ Len(e.widths[last]) = Len(line) - 1
                /\ PadChunks(e, last, Len(line)) = {}
                /\ SubSeq(e.widths, 1, last - 1)
                     = cell_widths(SubSeq(lines, 1, last - 1), minwidth).ws
                /\ LET alt == FlushAfterNewline(self)
                   IN  /\ alt.pre.lines[last]
                            = Append(line, Cell_new(Len(buf)))
                       /\ Len(alt.widths[last]) = Len(line)
                       /\ alt.res = "Ok"
                       /\ \E x \in PadChunks(alt, last, Len(line)) :
                            Len(alt.chunks[x].bytes) =
                                padding + alt.widths[last][Len(line)]
                                    - line[Len(line)].width

\* C18: flush terminates the in-progress cell when it holds a byte and
\* leaves it alone when it is empty. When the buffered input ends with a
\* tab, the in-progress cell is empty and flush appends no cell: the bytes
\* before that tab are the last cell of their line, which gets no width
\* and no padding, and the widths of the other lines are those they get
\* without that line. Had the line been ended by a newline, it would hold
\* an empty cell more, and the cell before the tab would get a width and
\* padding.
C18_FlushAfterTabAppendsNoCell == [][FlushAfterTab]_vars

\* A successful flush of input that ends with a tab, with minwidth 0: the
\* second line is the one cell before that tab, wider than the width the
\* first line's column got, and the sink's last byte is that cell's, not
\* padding.
C18_Witness ==
    /\ call.op = "flush"
    /\ call.res = "Ok"
    /\ fails = 0
    /\ consumed # <<>>
    /\ consumed[Len(consumed)] = TAB
    /\ log[1].from < Len(consumed)
    /\ Len(log[1].pre.lines) = 2
    /\ Len(log[1].pre.lines[1]) = 2
    /\ Len(log[1].pre.lines[2]) = 1
    /\ log[1].pre.lines[2][1].width > log[1].widths[1][1]
    /\ log[1].pre.padding > 0
    /\ w # <<>>
    /\ Len(w) \notin wpad
    /\ w[Len(w)] = consumed[Len(consumed) - 1]

\* What a step that is a write call returning Err does, and what a
\* successful flush call made right after such a call emits.
FailedEarlyFlush ==
    /\ (call'.op = "write" /\ call'.res = "Err") =>
        LET e == log'[Len(log')]
            read == SubSeq(CallBytes, 1, call'.nproc)
        IN  /\ e.early
            /\ e.res = "Err"
            /\ \A n \in 1..(Len(log') - 1) : log'[n].res = "Ok"
            /\ call'.nproc >= 1
            /\ read[call'.nproc] = NL
            /\ e.at = Len(consumed')
            /\ CallBytes = read \o call'.unread
            /\ buf' = Content(SubSeq(consumed', roundStart' + 1,
                                     Len(consumed')))
            /\ buf' = e.pre.buf
            /\ lines' = e.pre.lines
            /\ lines'[Len(lines')] = <<>>
            /\ curcell' = Cell_new(Len(buf'))
            /\ wpad' = e.post.wpad
            /\ w' = e.pre.w \o Flatten(e.chunks)
            /\ \A x \in 1..Len(e.chunks) :
                LET ch == e.chunks[x]
                IN  ch.kind = "cell" =>
                        ch.bytes = CellBytes(buf', lines'[ch.line][ch.idx])
    /\ (/\ call.op = "write"
        /\ call.res = "Err"
        /\ call'.op = "flush"
        /\ call'.res = "Ok") =>
            /\ Unpadded(log'[1].chunks)
                 = WithoutTabs(SubSeq(consumed, roundStart + 1, Len(consumed)))
            /\ consumed' = consumed
            /\ buf' = <<>>

\* C19: a write call whose early flush fails returns Err at that newline:
\* its bytes up to and including the newline are in the buffer, a new empty
\* line is the current one, and its bytes after the newline are not read:
\* they are neither in the buffer nor in the sink, where the failed flush
\* sent cells of the buffer only. A successful flush called next emits the
\* bytes read so far and none of the unread ones.
C19_FailedEarlyFlushDropsTheRest == [][FailedEarlyFlush]_vars

\* A write call returned Err at its newline with a byte left unread: the
\* failed flush had sent the sink the cell written before, which is still in
\* the buffer, on the line before the new empty one.
C19_Witness ==
    /\ call.op = "write"
    /\ call.res = "Err"
    /\ call.nproc = 1
    /\ Len(call.unread) = 1
    /\ call.unread[1] \notin {TAB, NL}
    /\ consumed[Len(consumed)] = NL
    /\ Len(lines) = 2
    /\ lines[2] = <<>>
    /\ buf # <<>>
    /\ w = buf
    /\ curcell = Cell_new(Len(buf))

====
